---- MODULE Spec2Model ----
(***************************************************************************)
(* Model of the MAVLink -> MQTT bridge of src/mav-to-mqtt.py: the          *)
(* normalizer build_telemetry_from_msg, the bounded out_queue, the reader  *)
(* thread, the rate-limited publish loop of bridge_loop, MQTTClient and    *)
(* the start-up and shutdown paths of main.                                *)
(*                                                                         *)
(* Time is in milliseconds.  The wall clock itself is not a variable: the  *)
(* model keeps, for every time stamp the code holds, how long ago it was   *)
(* taken (its age), which is all that `now - last_pub` and the timed waits *)
(* read.  Ages saturate at SatAge, which is at least every threshold they  *)
(* are compared with.                                                      *)
(***************************************************************************)
EXTENDS Integers, Sequences, FiniteSets, TLC

(***************************************************************************)
(* Bounds of the model.                                                    *)
(***************************************************************************)
MaxSeq == 3          \* raw events the source delivers in one run
MaxCap == 2          \* largest --queue-size explored, next to 1
TickSteps == {1000}  \* amounts by which time advances in one step (ms)
Rates == {50, 100}  \* --rate values explored, in hundredths of a Hz

Max(a, b) == IF a >= b THEN a ELSE b
Min(a, b) == IF a <= b THEN a ELSE b

(***************************************************************************)
(* Python values.  A number is the rational n/d; sqrt is the value         *)
(* sqrt(n)/d.  "absent" marks an attribute the message object lacks,       *)
(* "raise" the outcome of an expression that raises.                       *)
(***************************************************************************)
IntV(n) == [k |-> "int", n |-> n, d |-> 1]
FloatV(n, d) == [k |-> "float", n |-> n, d |-> d]
SqrtV(n, d) == [k |-> "sqrt", n |-> n, d |-> d]
StrV == [k |-> "str", n |-> 0, d |-> 1]
NoneV == [k |-> "none", n |-> 0, d |-> 1]
Absent == [k |-> "absent", n |-> 0, d |-> 1]
Raise == [k |-> "raise", n |-> 0, d |-> 1]
TimeV == [k |-> "time", n |-> 0, d |-> 1]    \* a reading of time.time()

IsNum(v) == v.k \in {"int", "float"}

\* msg.name: AttributeError when the attribute is missing
GetAttr(msg, name) == IF msg[name].k = "absent" THEN Raise ELSE msg[name]

\* getattr(msg, name, None)
GetAttrNone(msg, name) == IF msg[name].k = "absent" THEN NoneV ELSE msg[name]

\* v / c for a float constant c: TypeError unless v is a number
TrueDiv(v, c) == IF IsNum(v) THEN FloatV(v.n, v.d * c) ELSE Raise

\* getattr(msg, name, None) / c if getattr(msg, name, None) is not None else None
ScaledOrNone(msg, name, c) ==
    LET v == GetAttrNone(msg, name)
    IN  IF v.k # "none" THEN TrueDiv(v, c) ELSE NoneV

(***************************************************************************)
(* A dict is a function from a set of keys to values.                      *)
(***************************************************************************)
DictUpdate(t, u) ==
    [k \in (DOMAIN t) \cup (DOMAIN u) |-> IF k \in DOMAIN u THEN u[k] ELSE t[k]]

\* a normalization that keeps the None entries
KeepNone(t) == t

\* {k: v for k, v in t.items() if v is not None}
DropNone(t) == [k \in {x \in DOMAIN t : t[x].k # "none"} |-> t[k]]

Raises(u) == \E k \in DOMAIN u : u[k].k = "raise"

PositionFields(msg) ==
    [lat |-> TrueDiv(GetAttr(msg, "lat"), 10000000),
     lon |-> TrueDiv(GetAttr(msg, "lon"), 10000000),
     alt |-> TrueDiv(GetAttr(msg, "alt"), 1000),
     relative_alt |-> ScaledOrNone(msg, "relative_alt", 1000),
     vx |-> GetAttrNone(msg, "vx"),
     vy |-> GetAttrNone(msg, "vy"),
     vz |-> GetAttrNone(msg, "vz"),
     hdg |-> ScaledOrNone(msg, "hdg", 100)]

HudFields(msg) ==
    [velocity |-> GetAttrNone(msg, "vel"),
     alt |-> GetAttrNone(msg, "alt"),
     airspeed |-> GetAttrNone(msg, "airspeed"),
     groundspeed |-> GetAttrNone(msg, "groundspeed"),
     throttle |-> GetAttrNone(msg, "throttle")]

GpsFields(msg) ==
    [lat |-> TrueDiv(GetAttr(msg, "lat"), 10000000),
     lon |-> TrueDiv(GetAttr(msg, "lon"), 10000000),
     alt |-> TrueDiv(GetAttr(msg, "alt"), 1000),
     eph |-> GetAttrNone(msg, "eph"),
     epv |-> GetAttrNone(msg, "epv")]

\* The value None of build_telemetry_from_msg: a dict always has "seq",
\* so the dict without keys stands for None.
NoRecord == [k \in {} |-> NoneV]

IsRecord(t) == DOMAIN t # {}

\* A normalizer without the final `else: return None`: an event of any other
\* type yields the record that holds seq and timestamp only
build_telemetry_no_else(msg, seq) ==
    LET t == [seq |-> IntV(seq), timestamp |-> TimeV]
        u == IF msg.type = "GLOBAL_POSITION_INT" THEN PositionFields(msg)
             ELSE IF msg.type = "VFR_HUD" THEN HudFields(msg)
             ELSE IF msg.type = "GPS_RAW_INT" THEN GpsFields(msg)
             ELSE NoRecord
    IN  IF Raises(u) THEN NoRecord ELSE DropNone(DictUpdate(t, u))

\* build_telemetry_from_msg(msg, seq)
build_telemetry_from_msg(msg, seq) ==
    LET t == [seq |-> IntV(seq), timestamp |-> TimeV]
        u == IF msg.type = "GLOBAL_POSITION_INT" THEN PositionFields(msg)
             ELSE IF msg.type = "VFR_HUD" THEN HudFields(msg)
             ELSE IF msg.type = "GPS_RAW_INT" THEN GpsFields(msg)
             ELSE NoRecord
    IN  IF msg.type \notin {"GLOBAL_POSITION_INT", "VFR_HUD", "GPS_RAW_INT"}
        THEN NoRecord
        ELSE IF Raises(u) THEN NoRecord
        ELSE DropNone(DictUpdate(t, u))

\* telemetry.get(key, 0) / 100.0
GetScaled(t, key) == TrueDiv(IF key \in DOMAIN t THEN t[key] ELSE IntV(0), 100)

\* (vx*vx + vy*vy) ** 0.5 for the rationals vx and vy
Norm(vx, vy) ==
    IF vx.d = vy.d
    THEN SqrtV(vx.n * vx.n + vy.n * vy.n, vx.d)
    ELSE SqrtV(vx.n * vx.n * vy.d * vy.d + vy.n * vy.n * vx.d * vx.d, vx.d * vy.d)

\* reader, lines 192-201: the velocity fallback
VelocityFallback(t) ==
    IF "velocity" \notin DOMAIN t /\ ("vx" \in DOMAIN t \/ "vy" \in DOMAIN t)
    THEN LET vx == GetScaled(t, "vx")
             vy == GetScaled(t, "vy")
         IN  IF vx.k = "raise" \/ vy.k = "raise"
             THEN t
             ELSE [k \in ((DOMAIN t) \cup {"velocity"}) \ {"vx", "vy"} |->
                      IF k = "velocity" THEN Norm(vx, vy) ELSE t[k]]
    ELSE t


(***************************************************************************)
(* Raw events the telemetry source delivers.                               *)
(***************************************************************************)
FieldNames == {"lat", "lon", "alt", "relative_alt", "vx", "vy", "vz", "hdg",
               "vel", "airspeed", "groundspeed", "throttle", "eph", "epv"}

Event(type, fields) ==
    [f \in FieldNames \cup {"type"} |->
        IF f = "type" THEN type
        ELSE IF f \in DOMAIN fields THEN fields[f] ELSE Absent]

PositionOk ==
    Event("GLOBAL_POSITION_INT",
          [lat |-> IntV(473397000), lon |-> IntV(85550500), alt |-> IntV(500000),
           relative_alt |-> IntV(10000), vx |-> IntV(300), vy |-> IntV(400)])
PositionBadLat ==
    Event("GLOBAL_POSITION_INT",
          [lat |-> StrV, lon |-> IntV(85550500), alt |-> IntV(500000)])
PositionBadVx ==
    Event("GLOBAL_POSITION_INT",
          [lat |-> IntV(473397000), lon |-> IntV(85550500), alt |-> IntV(500000),
           vx |-> StrV, vy |-> IntV(400)])
HudOk ==
    Event("VFR_HUD",
          [alt |-> IntV(500), airspeed |-> IntV(12), groundspeed |-> IntV(11),
           throttle |-> IntV(40)])
GpsNoAlt ==
    Event("GPS_RAW_INT", [lat |-> IntV(473397000), lon |-> IntV(85550500)])
Heartbeat == Event("HEARTBEAT", [k \in {} |-> Absent])
BadType == Event("!get_type raises", [k \in {} |-> Absent])

Msgs == {PositionOk, PositionBadLat, PositionBadVx, HudOk, GpsNoAlt, Heartbeat,
         BadType}

NoMsg == Event("", [k \in {} |-> Absent])

\* The fields build_telemetry_from_msg extracts for each recognized type
Extracted(type) ==
    IF type = "GLOBAL_POSITION_INT"
    THEN {"lat", "lon", "alt", "relative_alt", "vx", "vy", "vz", "hdg"}
    ELSE IF type = "VFR_HUD"
    THEN {"vel", "alt", "airspeed", "groundspeed", "throttle"}
    ELSE IF type = "GPS_RAW_INT" THEN {"lat", "lon", "alt", "eph", "epv"}
    ELSE {}

\* A recognized event one of whose extracted fields holds a non-numeric value
Malformed(m) == \E f \in Extracted(m.type) : m[f].k = "str"

(***************************************************************************)
(* Configuration and derived constants.                                    *)
(***************************************************************************)
ConnectWaitMs == 2000     \* self._connected.wait(timeout=2.0)
\* a counter that starts one too high
InitialSeqOne == 0 + 1
InitialSeq == 0           \* seq = 0

\* publish_interval = 1.0 / max(0.1, rate_hz), in ms, rate in hundredths of a Hz
publish_interval(rate) == 100000 \div Max(10, rate)

\* 1/R seconds in ms, for a rate R > 0 in hundredths of a Hz
RateInverse(rate) == 100000 \div rate

SetMax(S) == CHOOSE x \in S : \A y \in S : x >= y

SatAge == SetMax({ConnectWaitMs} \cup {publish_interval(r) : r \in Rates}
                 \cup {RateInverse(r) : r \in {x \in Rates : x > 0}})

Older(age, d) == Min(SatAge, age + d)

(***************************************************************************)
(* queue.Queue(maxsize): the operations out_queue is used with.            *)
(***************************************************************************)
\* Full as it would be with the comparison off by one
FullOffByOne(q, maxsize) == maxsize > 0 /\ Len(q) > maxsize

\* put_nowait raises Full exactly when this holds (maxsize <= 0: unbounded)
Full(q, maxsize) == maxsize > 0 /\ Len(q) >= maxsize

\* a put that inserts at the head
QueuePutFront(q, item) == <<item>> \o q

QueuePut(q, item) == Append(q, item)

QueueItem(q) == Head(q)

\* a get that removes the newest record instead of the oldest
QueueRestNewest(q) == SubSeq(q, 1, Len(q) - 1)

QueueRest(q) == Tail(q)

(***************************************************************************)
(* State.                                                                  *)
(***************************************************************************)
VARIABLES
    queue_size,     \* args.queue_size
    rate_hz,        \* args.rate, in hundredths of a Hz
    mpc,            \* where the main thread is
    rpc,            \* where the reader thread is
    signal,         \* the shutdown signal delivered to the process, if any
    pass_read,      \* outcome of read_password
    sink_started,   \* mqttc.start() has run
    sink_stopped,   \* mqttc.stop() has run
    connected,      \* MQTTClient._connected
    seq,            \* seq of bridge_loop
    raw_events,     \* history: raw events recv_match has returned
    msg,            \* reader: what recv_match last returned, until its record is enqueued
    telemetry,      \* reader: the record being enqueued
    out_queue,      \* out_queue, oldest first
    full_snap,      \* history: out_queue when put_nowait last raised Full
    p_item,         \* publish loop: the record taken from out_queue
    last_pub_age,   \* time since the instant last_pub holds
    now_age,        \* time since the instant `now` holds
    wait_age,       \* time spent in self._connected.wait
    published,      \* history: seq of every record handed to the sink
    handoff_age     \* history: time since the latest hand-off

cfgVars == <<queue_size, rate_hz>>
readerVars == <<seq, raw_events, msg, telemetry, full_snap>>
pubVars == <<p_item, last_pub_age, now_age, wait_age, published, handoff_age>>
sinkVars == <<sink_started, sink_stopped, connected>>
vars == <<cfgVars, mpc, rpc, signal, pass_read, sinkVars, readerVars, out_queue,
          pubVars>>

\* main before the try of line 220; at "m_started" the reader runs already
StartupPcs == {"m_password", "m_mav", "m_heartbeat", "m_sink", "m_spawn",
               "m_started"}
\* main inside the publish loop with a record taken from out_queue that has
\* passed the rate check and is not yet handed to client.publish
HandoffPcs == {"p_passed", "p_checked", "p_wait", "p_notified", "p_warned"}
\* main inside the publish loop; at "p_handed" client.publish has returned
\* and last_pub = now of line 237 is still to come
LoopPcs == {"p_get", "p_sleep", "p_handed"} \cup HandoffPcs
\* main after a KeyboardInterrupt caught at line 240: inside mqttc.stop(),
\* and after it
ShutdownPcs == {"m_stopping", "m_stopped"}
EnqueuePcs == {"r_put", "r_evict", "r_put2"}
ReaderLive == {"r_recv", "r_sleep"} \cup EnqueuePcs

Init ==
    /\ queue_size \in {1, MaxCap}
    /\ rate_hz \in Rates
    /\ mpc = "m_password"
    /\ rpc = "r_idle"
    /\ signal = "none"
    /\ pass_read = "unread"
    /\ sink_started = FALSE
    /\ sink_stopped = FALSE
    /\ connected = FALSE
    /\ seq = InitialSeq
    /\ raw_events = 0
    /\ msg = NoMsg
    /\ telemetry = NoRecord
    /\ out_queue = <<>>
    /\ full_snap = <<>>
    /\ p_item = NoRecord
    /\ last_pub_age = SatAge
    /\ now_age = 0
    /\ wait_age = 0
    /\ published = <<>>
    /\ handoff_age = SatAge

Killed(pc) == IF pc \in ReaderLive THEN "r_killed" ELSE pc

\* The process ends: its threads end with it (the reader is a daemon thread)
\* and its memory is gone.  What the sink was handed stays.
Exit ==
    /\ mpc' = "exited"
    /\ rpc' = Killed(rpc)
    /\ connected' = FALSE
    /\ seq' = InitialSeq
    /\ raw_events' = 0
    /\ msg' = NoMsg
    /\ telemetry' = NoRecord
    /\ full_snap' = <<>>
    /\ out_queue' = <<>>
    /\ p_item' = NoRecord
    /\ last_pub_age' = SatAge
    /\ now_age' = 0
    /\ wait_age' = 0
    /\ UNCHANGED <<cfgVars, pass_read, sink_started, published, handoff_age>>

(***************************************************************************)
(* main and the start-up part of bridge_loop.                              *)
(***************************************************************************)
\* read_password(args.mqtt_pass_file): no file configured, read, or failed
\* (the failure is printed and None returned)
MainReadPassword(o) ==
    /\ mpc = "m_password"
    /\ pass_read' = o
    /\ mpc' = "m_mav"
    /\ UNCHANGED <<cfgVars, rpc, signal, sinkVars, readerVars, out_queue, pubVars>>

\* mavutil.mavlink_connection(...): an exception reaches main's handler,
\* which prints it and calls sys.exit(1)
MainConnectMav(ok) ==
    /\ mpc = "m_mav"
    /\ IF ok
       THEN /\ mpc' = "m_heartbeat"
            /\ UNCHANGED <<cfgVars, rpc, pass_read, sinkVars, readerVars, out_queue,
                           pubVars>>
       ELSE /\ Exit
            /\ UNCHANGED sink_stopped
    /\ UNCHANGED signal

\* what mav.wait_heartbeat(timeout=5) can do: return a heartbeat, return
\* None after the timeout, raise
HeartbeatOutcomes == {"heartbeat", "none", "error"}

\* a heartbeat wait whose exception is not caught: it reaches main's handler
MainWaitHeartbeatFatal(o) ==
    /\ mpc = "m_heartbeat"
    /\ IF o = "error"
       THEN /\ Exit
            /\ UNCHANGED sink_stopped
       ELSE /\ mpc' = "m_sink"
            /\ UNCHANGED <<cfgVars, rpc, pass_read, sinkVars, readerVars, out_queue,
                           pubVars>>
    /\ UNCHANGED signal

\* mav.wait_heartbeat(timeout=5): heartbeat, none, or an exception (caught)
MainWaitHeartbeat(o) ==
    /\ mpc = "m_heartbeat"
    /\ mpc' = "m_sink"
    /\ UNCHANGED <<cfgVars, rpc, signal, pass_read, sinkVars, readerVars, out_queue,
                   pubVars>>

\* mqttc = MQTTClient(**mqtt_cfg); mqttc.start(): a failing connect is caught,
\* loop_start() runs in both cases
MainStartSink(ok) ==
    /\ mpc = "m_sink"
    /\ sink_started' = TRUE
    /\ mpc' = "m_spawn"
    /\ UNCHANGED <<cfgVars, rpc, signal, pass_read, sink_stopped, connected,
                   readerVars, out_queue, pubVars>>

\* seq = 0; last_pub = 0.0; out_queue = Queue(...); reader_thread.start():
\* the reader runs from here on, main is not yet inside the try
MainStartReader ==
    /\ mpc = "m_spawn"
    /\ seq' = InitialSeq
    /\ last_pub_age' = SatAge
    /\ out_queue' = <<>>
    /\ rpc' = "r_recv"
    /\ mpc' = "m_started"
    /\ UNCHANGED <<cfgVars, signal, pass_read, sinkVars, raw_events, msg, telemetry,
                   full_snap, p_item, now_age, wait_age, published, handoff_age>>

\* print("[bridge] entering publish loop"); the try of line 220 is entered
MainEnterLoop ==
    /\ mpc = "m_started"
    /\ mpc' = "p_get"
    /\ UNCHANGED <<cfgVars, rpc, signal, pass_read, sinkVars, readerVars, out_queue,
                   pubVars>>

(***************************************************************************)
(* The reader thread.                                                      *)
(***************************************************************************)
\* mav.recv_match(blocking=True, timeout=2) returned None: continue
ReaderRecvTimeout ==
    /\ rpc = "r_recv"
    /\ msg' = NoMsg
    /\ UNCHANGED <<cfgVars, mpc, rpc, signal, pass_read, sinkVars, seq, raw_events,
                   telemetry, full_snap, out_queue, pubVars>>

\* a reader whose error handler leaves the loop
AfterErrorDies == "r_dead"

\* where the reader goes when the handler of line 212 catches an exception:
\* it prints, sleeps a second and loops
AfterError == "r_sleep"

\* mav.recv_match raised
ReaderRecvError ==
    /\ rpc = "r_recv"
    /\ rpc' = AfterError
    /\ UNCHANGED <<cfgVars, mpc, signal, pass_read, sinkVars, readerVars, out_queue,
                   pubVars>>

\* seq += 1
NextSeq(s) == s + 1

\* a reader that counts an event only when it yields a record
ReaderRecvEventCountsRecords(m) ==
    /\ rpc = "r_recv"
    /\ seq < MaxSeq
    /\ raw_events' = raw_events + 1
    /\ m.type # BadType.type
    /\ LET t == build_telemetry_from_msg(m, NextSeq(seq))
       IN  IF IsRecord(t)
           THEN /\ seq' = NextSeq(seq)
                /\ msg' = m
                /\ telemetry' = VelocityFallback(t)
                /\ rpc' = "r_put"
           ELSE /\ rpc' = "r_recv"
                /\ UNCHANGED <<seq, msg, telemetry>>
    /\ UNCHANGED <<cfgVars, mpc, signal, pass_read, sinkVars, full_snap, out_queue,
                   pubVars>>

\* mav.recv_match returned the event m: lines 189-201
ReaderRecvEvent(m) ==
    /\ rpc = "r_recv"
    /\ seq < MaxSeq
    /\ raw_events' = raw_events + 1
    /\ seq' = NextSeq(seq)
    /\ msg' = m
    /\ IF m.type = BadType.type
       THEN /\ rpc' = AfterError
            /\ UNCHANGED telemetry
       ELSE LET t == build_telemetry_from_msg(m, seq')
            IN  IF IsRecord(t)
                THEN /\ telemetry' = VelocityFallback(t)
                     /\ rpc' = "r_put"
                ELSE /\ rpc' = "r_recv"
                     /\ UNCHANGED telemetry
    /\ UNCHANGED <<cfgVars, mpc, signal, pass_read, sinkVars, full_snap, out_queue,
                   pubVars>>

\* out_queue.put_nowait(telemetry), line 204; Full is caught at line 205
ReaderPut ==
    /\ rpc = "r_put"
    /\ IF Full(out_queue, queue_size)
       THEN /\ rpc' = "r_evict"
            /\ full_snap' = out_queue
            /\ UNCHANGED <<msg, telemetry, out_queue>>
       ELSE /\ out_queue' = QueuePut(out_queue, telemetry)
            /\ rpc' = "r_recv"
            /\ msg' = NoMsg
            /\ telemetry' = NoRecord
            /\ UNCHANGED full_snap
    /\ UNCHANGED <<cfgVars, mpc, signal, pass_read, sinkVars, seq, raw_events, pubVars>>

\* out_queue.get_nowait(), line 208; Empty is caught at line 210 and the
\* record is given up
ReaderEvict ==
    /\ rpc = "r_evict"
    /\ IF out_queue = <<>>
       THEN /\ rpc' = "r_recv"
            /\ msg' = NoMsg
            /\ telemetry' = NoRecord
            /\ full_snap' = <<>>
            /\ UNCHANGED out_queue
       ELSE /\ out_queue' = QueueRest(out_queue)
            /\ rpc' = "r_put2"
            /\ UNCHANGED <<msg, telemetry, full_snap>>
    /\ UNCHANGED <<cfgVars, mpc, signal, pass_read, sinkVars, seq, raw_events,
                   pubVars>>

\* out_queue.put_nowait(telemetry), line 209; Full is caught at line 210
ReaderPut2 ==
    /\ rpc = "r_put2"
    /\ out_queue' = IF Full(out_queue, queue_size)
                    THEN out_queue
                    ELSE QueuePut(out_queue, telemetry)
    /\ rpc' = "r_recv"
    /\ msg' = NoMsg
    /\ telemetry' = NoRecord
    /\ full_snap' = <<>>
    /\ UNCHANGED <<cfgVars, mpc, signal, pass_read, sinkVars, seq, raw_events,
                   pubVars>>

\* time.sleep(1) of line 214 is over
ReaderSleepDone ==
    /\ rpc = "r_sleep"
    /\ rpc' = "r_recv"
    /\ UNCHANGED <<cfgVars, mpc, signal, pass_read, sinkVars, readerVars, out_queue,
                   pubVars>>

(***************************************************************************)
(* The publish loop (main thread) and MQTTClient.publish.                  *)
(***************************************************************************)
\* a publish loop without the rate check
TooSoonNever(elapsed, interval) == FALSE

\* now - last_pub < publish_interval
TooSoon(elapsed, interval) == elapsed < interval

\* a hand-off that calls client.publish twice with the same record
HandoffTwice(item, ok) ==
    /\ published' = IF ok THEN Append(Append(published, item.seq.n), item.seq.n)
                    ELSE published
    /\ handoff_age' = IF ok THEN 0 ELSE handoff_age

\* self.client.publish(topic, payload, qos) of line 152.  A raising
\* client.publish is caught at line 153 and hands nothing over.
Handoff(item, ok) ==
    /\ published' = IF ok THEN Append(published, item.seq.n) ELSE published
    /\ handoff_age' = IF ok THEN 0 ELSE handoff_age

\* out_queue.get(timeout=1.0) returned a record: now = time.time() and the
\* rate check of lines 229-233; a record that is too soon is dropped by the
\* continue, any other is in hand for lines 235-236
PubGet ==
    /\ mpc = "p_get"
    /\ out_queue # <<>>
    /\ out_queue' = QueueRest(out_queue)
    /\ IF TooSoon(last_pub_age, publish_interval(rate_hz))
       THEN UNCHANGED <<mpc, pubVars>>
       ELSE /\ mpc' = "p_passed"
            /\ p_item' = QueueItem(out_queue)
            /\ now_age' = 0
            /\ wait_age' = 0
            /\ UNCHANGED <<last_pub_age, published, handoff_age>>
    /\ UNCHANGED <<cfgVars, rpc, signal, pass_read, sinkVars, readerVars>>

\* json.dumps and mqttc.publish of lines 235-236 up to the is_set() of line
\* 146: connected, client.publish is called at once (line 152)
PubCall(ok) ==
    /\ mpc = "p_passed"
    /\ IF connected
       THEN /\ Handoff(p_item, ok)
            /\ mpc' = "p_handed"
            /\ p_item' = NoRecord
       ELSE /\ mpc' = "p_checked"
            /\ UNCHANGED <<p_item, published, handoff_age>>
    /\ UNCHANGED <<cfgVars, rpc, signal, pass_read, sinkVars, readerVars, out_queue,
                   last_pub_age, now_age, wait_age>>

\* last_pub = now of line 237, after mqttc.publish returned
PubSetLastPub ==
    /\ mpc = "p_handed"
    /\ last_pub_age' = now_age
    /\ mpc' = "p_get"
    /\ now_age' = 0
    /\ wait_age' = 0
    /\ UNCHANGED <<cfgVars, rpc, signal, pass_read, sinkVars, readerVars, out_queue,
                   p_item, published, handoff_age>>

\* out_queue.get(timeout=1.0) raised Empty
PubGetTimeout ==
    /\ mpc = "p_get"
    /\ out_queue = <<>>
    /\ mpc' = "p_sleep"
    /\ UNCHANGED <<cfgVars, rpc, signal, pass_read, sinkVars, readerVars, out_queue,
                   pubVars>>

\* time.sleep(0.01); continue
PubSleepDone ==
    /\ mpc = "p_sleep"
    /\ mpc' = "p_get"
    /\ UNCHANGED <<cfgVars, rpc, signal, pass_read, sinkVars, readerVars, out_queue,
                   pubVars>>

\* self._connected.wait(timeout=2.0) of line 148 is entered: it returns True
\* at once when the flag was set after the is_set() of line 146
PubWaitBegin ==
    /\ mpc = "p_checked"
    /\ mpc' = IF connected THEN "p_notified" ELSE "p_wait"
    /\ UNCHANGED <<cfgVars, rpc, signal, pass_read, sinkVars, readerVars, out_queue,
                   pubVars>>

\* A wait that has no timeout never gives up
WaitNeverTimesOut(age) == FALSE

\* self._connected.wait(timeout=2.0) gives up once the timeout has run
WaitTimedOut(age) == age >= ConnectWaitMs

\* self._connected.wait(timeout=2.0) returned True: the flag was set when
\* the wait began or set() was called during the wait; the flag may have
\* been cleared again since.  client.publish is called (line 152)
PubWaitConnected(ok) ==
    /\ mpc = "p_notified"
    /\ Handoff(p_item, ok)
    /\ mpc' = "p_handed"
    /\ p_item' = NoRecord
    /\ UNCHANGED <<cfgVars, rpc, signal, pass_read, sinkVars, readerVars, out_queue,
                   last_pub_age, now_age, wait_age>>

\* self._connected.wait(timeout=2.0) returned False: the warning of line 150
\* is printed
PubWaitTimeout ==
    /\ mpc = "p_wait"
    /\ ~connected
    /\ WaitTimedOut(wait_age)
    /\ mpc' = "p_warned"
    /\ UNCHANGED <<cfgVars, rpc, signal, pass_read, sinkVars, readerVars, out_queue,
                   pubVars>>

\* the client.publish that follows the warning: lines 151-154
PubHandoffWarned(ok) ==
    /\ mpc = "p_warned"
    /\ Handoff(p_item, ok)
    /\ mpc' = "p_handed"
    /\ p_item' = NoRecord
    /\ UNCHANGED <<cfgVars, rpc, signal, pass_read, sinkVars, readerVars, out_queue,
                   last_pub_age, now_age, wait_age>>

(***************************************************************************)
(* The sink's network thread, signals, process exit and time.              *)
(***************************************************************************)
SinkRunning == sink_started /\ ~sink_stopped /\ mpc # "exited"

\* on_connect with rc == 0: self._connected.set(), which notifies a publisher
\* waiting at line 148
SinkConnect ==
    /\ SinkRunning
    /\ ~connected
    /\ connected' = TRUE
    /\ mpc' = IF mpc = "p_wait" THEN "p_notified" ELSE mpc
    /\ UNCHANGED <<cfgVars, rpc, signal, pass_read, sink_started, sink_stopped,
                   readerVars, out_queue, pubVars>>

\* on_disconnect
SinkDisconnect ==
    /\ SinkRunning
    /\ connected
    /\ connected' = FALSE
    /\ UNCHANGED <<cfgVars, mpc, rpc, signal, pass_read, sink_started, sink_stopped,
                   readerVars, out_queue, pubVars>>

\* SIGINT: KeyboardInterrupt in the main thread.  Inside the try of line 220
\* it is caught at line 240 and the finally block calls mqttc.stop(); the
\* reader and the sink's network thread run on.  It is raised between any
\* two statements of the loop: a record in hand is abandoned, and after
\* client.publish returned last_pub stays unassigned.  Before the try
\* nothing catches it (main catches Exception only) and the process ends at
\* once.
SigInt ==
    /\ signal = "none"
    /\ mpc \in StartupPcs \cup LoopPcs
    /\ signal' = "INT"
    /\ IF mpc \in LoopPcs
       THEN /\ mpc' = "m_stopping"
            /\ p_item' = NoRecord
            /\ now_age' = 0
            /\ wait_age' = 0
            /\ UNCHANGED <<cfgVars, rpc, pass_read, sinkVars, readerVars, out_queue,
                           last_pub_age, published, handoff_age>>
       ELSE /\ Exit
            /\ UNCHANGED sink_stopped

\* mqttc.stop() returns: loop_stop() has joined the network thread and
\* disconnect() was called (lines 137-143); the reader runs on
MainStopSink ==
    /\ mpc = "m_stopping"
    /\ sink_stopped' = TRUE
    /\ mpc' = "m_stopped"
    /\ UNCHANGED <<cfgVars, rpc, signal, pass_read, sink_started, connected,
                   readerVars, out_queue, pubVars>>

\* print("[bridge] stopped"); bridge_loop and main return, the process ends
MainReturn ==
    /\ mpc = "m_stopped"
    /\ Exit
    /\ UNCHANGED <<signal, sink_stopped>>

\* SIGTERM: no handler is installed, the default action ends the process
SigTerm ==
    /\ signal = "none"
    /\ mpc \in StartupPcs \cup LoopPcs
    /\ signal' = "TERM"
    /\ Exit
    /\ UNCHANGED sink_stopped

\* d ms pass.  Main spends its time in the blocking calls: out_queue.get,
\* time.sleep, the connection wait, which returns as soon as the connection
\* is signalled and no later than its timeout, and mqttc.stop.
Tick(d) ==
    /\ mpc \in {"p_get", "p_sleep", "p_wait"} \cup ShutdownPcs
    /\ ~(mpc = "p_wait" /\ WaitTimedOut(wait_age))
    /\ last_pub_age' = Older(last_pub_age, d)
    /\ handoff_age' = Older(handoff_age, d)
    /\ now_age' = IF mpc = "p_wait" THEN Older(now_age, d) ELSE now_age
    /\ wait_age' = IF mpc = "p_wait" THEN Older(wait_age, d) ELSE wait_age
    /\ UNCHANGED <<cfgVars, mpc, rpc, signal, pass_read, sinkVars, readerVars,
                   out_queue, p_item, published>>

Next ==
    \/ \E o \in {"none", "ok", "failed"} : MainReadPassword(o)
    \/ \E ok \in BOOLEAN : MainConnectMav(ok)
    \/ \E o \in HeartbeatOutcomes : MainWaitHeartbeat(o)
    \/ \E ok \in BOOLEAN : MainStartSink(ok)
    \/ MainStartReader
    \/ MainEnterLoop
    \/ ReaderRecvTimeout
    \/ ReaderRecvError
    \/ \E m \in Msgs : ReaderRecvEvent(m)
    \/ ReaderPut
    \/ ReaderEvict
    \/ ReaderPut2
    \/ ReaderSleepDone
    \/ PubGet
    \/ \E ok \in BOOLEAN : PubCall(ok)
    \/ PubSetLastPub
    \/ PubGetTimeout
    \/ PubSleepDone
    \/ PubWaitBegin
    \/ \E ok \in BOOLEAN : PubWaitConnected(ok)
    \/ PubWaitTimeout
    \/ \E ok \in BOOLEAN : PubHandoffWarned(ok)
    \/ SinkConnect
    \/ SinkDisconnect
    \/ SigTerm
    \/ SigInt
    \/ MainStopSink
    \/ MainReturn
    \/ \E d \in TickSteps : Tick(d)

Spec == Init /\ [][Next]_vars

\* The program started without --mqtt-pass-file: read_password returns None
\* at its first line.  Nothing reads the outcome of read_password after
\* start-up.
NoFileNext == Next /\ pass_read' \in {"unread", "none"}

\* The reader thread is scheduled: its sleep ends and its queue operations,
\* which never block, are carried out.
FairSpec ==
    /\ Init
    /\ [][NoFileNext]_vars
    /\ WF_vars(ReaderPut \/ ReaderEvict \/ ReaderPut2 \/ ReaderSleepDone)

\* The events build_telemetry_from_msg turns into a record
RecordMsgs ==
    {m \in Msgs : m.type # BadType.type /\ IsRecord(build_telemetry_from_msg(m, 1))}

\* The pipeline while nothing drains out_queue: the main thread is held at
\* the print of line 219 once the reader is started, and every event fed
\* yields a record.
FeedNext ==
    \/ \E o \in {"none", "ok", "failed"} : MainReadPassword(o)
    \/ \E ok \in BOOLEAN : MainConnectMav(ok)
    \/ \E o \in HeartbeatOutcomes : MainWaitHeartbeat(o)
    \/ \E ok \in BOOLEAN : MainStartSink(ok)
    \/ MainStartReader
    \/ ReaderRecvTimeout
    \/ \E m \in RecordMsgs : ReaderRecvEvent(m)
    \/ ReaderPut
    \/ ReaderEvict
    \/ ReaderPut2

FeedSpec == Init /\ [][FeedNext]_vars

\* Time passes and the main thread is scheduled from the rate check to
\* last_pub = now: the connection wait inside mqttc.publish returns when the
\* connection is signalled or its timeout has run.
WaitFairSpec ==
    /\ Init
    /\ [][NoFileNext]_vars
    /\ WF_vars(\/ \E d \in TickSteps : Tick(d)
               \/ \E ok \in BOOLEAN : PubCall(ok)
               \/ PubSetLastPub
               \/ PubWaitBegin
               \/ \E ok \in BOOLEAN : PubWaitConnected(ok)
               \/ PubWaitTimeout
               \/ \E ok \in BOOLEAN : PubHandoffWarned(ok))

(***************************************************************************)
(* Properties.                                                             *)
(***************************************************************************)
InQueue(t, q) == \E i \in 1..Len(q) : q[i] = t

\* C1: when the reader's enqueue step finishes (put_nowait, or the
\* evict-then-put that follows a Full), the record it was enqueuing is in
\* out_queue, whatever the publisher did in between.
EnqueueKeepsNewest ==
    [][(rpc \in EnqueuePcs /\ rpc' = "r_recv") => InQueue(telemetry, out_queue')]_vars

\* C2: for a capacity N >= 1 the queue never holds more than N records.
LengthAtMostCapacity == queue_size >= 1 => Len(out_queue) <= queue_size

\* C2 witness: the queue is full, the reader is about to put one more record
\* and the publisher is about to take one.
FullQueueContended ==
    /\ queue_size = MaxCap
    /\ Len(out_queue) = queue_size
    /\ rpc = "r_put"
    /\ mpc = "p_get"

\* C3: an enqueue that found the queue full ends with at most N records in
\* it: the records the full queue held, without its oldest and in their
\* order, followed by the new record.
EnqueueIntoFullEvictsOldest ==
    [][(rpc \in {"r_evict", "r_put2"} /\ rpc' = "r_recv")
        => /\ Len(out_queue') <= queue_size
           /\ out_queue' = Append(Tail(full_snap), telemetry)]_vars

\* C4: a record is handed to the sink no sooner than 1/R after the hand-off
\* before it.
PublishSpacingAtLeastRateInverse ==
    [][(published' # published /\ published # <<>>)
        => handoff_age >= RateInverse(rate_hz)]_vars

\* C5: once a shutdown signal has ended the process, a sink that was started
\* has been stopped (and no thread is running).
ShutdownReleasesSink ==
    (signal # "none" /\ mpc = "exited")
        => /\ rpc \notin ReaderLive
           /\ sink_started => sink_stopped

\* C6: seq is the number of raw events recv_match has returned (so the first
\* event gets 1, and timeouts and read errors leave it alone), and the record
\* built for an event carries it.
SeqCountsRawEvents ==
    /\ seq = raw_events
    /\ IsRecord(telemetry) => telemetry.seq.n = raw_events

\* C6 witness: the record of the second event is being enqueued, the first
\* event having left nothing in the queue and nothing with the sink.
SecondEventNumberedTwo ==
    /\ rpc = "r_put"
    /\ telemetry.seq.n = 2
    /\ out_queue = <<>>
    /\ published = <<>>

\* C7: the seq values handed to the sink are strictly increasing.
PublishedInOrder ==
    \A i \in 1..(Len(published) - 1) : published[i] < published[i + 1]

\* C7 witness: two records were handed over and one between them was dropped.
PublishedWithGap == published = <<1, 3>>

\* C8: after a failed read of the password file nothing of the pipeline
\* starts: no sink, no reader, no publish loop.
UnreadablePasswordAbortsStartup ==
    pass_read = "failed"
        => /\ ~sink_started
           /\ rpc = "r_idle"
           /\ mpc \notin LoopPcs

HasMalformedValue(t) == \E k \in DOMAIN t : t[k].k = "str"

\* C9: no record is enqueued for a recognized event with a malformed field:
\* the reader never enqueues for such an event and no queued record holds
\* a malformed value.
MalformedEventDiscarded ==
    /\ rpc \in EnqueuePcs => ~Malformed(msg)
    /\ \A i \in 1..Len(out_queue) : ~HasMalformedValue(out_queue[i])

\* C10: the reader thread, once started, is running until the process ends,
\* and after an error it reads again (unless the process ends first).
ReaderSurvivesErrors ==
    /\ [](rpc \in ReaderLive \cup {"r_idle", "r_killed"})
    /\ [](rpc = "r_killed" => mpc = "exited")
    /\ (rpc = "r_sleep" ~> (rpc = "r_recv" \/ mpc = "exited"))

\* C10 witness: the reader pauses after an error in the middle of a run.
ReaderPausedAfterError ==
    /\ rpc = "r_sleep"
    /\ raw_events >= 1
    /\ Len(out_queue) >= 1

\* C11: a record that passed the rate check is handed to the sink connected
\* or not.  The record is in hand from the rate check on, connected it goes
\* to client.publish at once and otherwise into the connection wait, which
\* never exceeds its timeout and always ends; unless a signal arrives first,
\* client.publish is called with the record (the record is published, or
\* the call raised), last_pub is set to the instant of the rate check and
\* the publish loop goes on to its next get.
RateCheckedRecordHandedOver ==
    /\ [](mpc \in HandoffPcs => IsRecord(p_item) /\ wait_age <= ConnectWaitMs)
    /\ [][(mpc \in HandoffPcs
              /\ mpc' \notin HandoffPcs \cup ShutdownPcs \cup {"exited"}) =>
            /\ mpc' = "p_handed"
            /\ mpc \in {"p_passed", "p_notified", "p_warned"}
            /\ mpc = "p_passed" => connected
            /\ last_pub_age' = last_pub_age
            /\ published' \in {published, Append(published, p_item.seq.n)}]_vars
    /\ [][(mpc = "p_handed" /\ mpc' \notin {"p_handed", "exited"} \cup ShutdownPcs) =>
            /\ mpc' = "p_get"
            /\ last_pub_age' = now_age
            /\ published' = published]_vars
    /\ [][(mpc = "p_get" /\ Len(out_queue') < Len(out_queue) /\ rpc' = rpc
              /\ mpc' # "exited"
              /\ ~TooSoon(last_pub_age, publish_interval(rate_hz))) =>
            /\ mpc' = "p_passed"
            /\ p_item' = QueueItem(out_queue)
            /\ now_age' = 0]_vars
    /\ [][(mpc = "p_passed" /\ ~connected
              /\ mpc' \notin {"p_passed", "exited"} \cup ShutdownPcs) =>
            mpc' = "p_checked" /\ p_item' = p_item]_vars
    /\ (mpc \in HandoffPcs \cup {"p_handed"})
          ~> (mpc \in {"p_get", "exited"} \cup ShutdownPcs)

\* C11 witness: the sink is still not connected when the wait for it has run
\* its full timeout; the publisher is about to call client.publish.
WaitRanOutDisconnected ==
    /\ mpc = "p_wait"
    /\ ~connected
    /\ wait_age = ConnectWaitMs
    /\ IsRecord(p_item)

\* The type tags build_telemetry_from_msg has a branch for
RecognizedTypes == {"GLOBAL_POSITION_INT", "VFR_HUD", "GPS_RAW_INT"}

\* The seq values of the records the pipeline holds or has published
SeqsInPipeline ==
    {out_queue[i].seq.n : i \in 1..Len(out_queue)}
        \cup {published[i] : i \in 1..Len(published)}
        \cup (IF IsRecord(telemetry) THEN {telemetry.seq.n} ELSE {})
        \cup (IF IsRecord(p_item) THEN {p_item.seq.n} ELSE {})

\* C12: an event whose type tag is not recognized advances seq by one and
\* nothing else: the step that receives it leaves out_queue and the published
\* records as they were and starts no enqueue, and afterwards no record in
\* the queue, in the reader's or the publisher's hands or among the published
\* ones carries its seq.
UnrecognizedEventLeavesNoRecord ==
    /\ [][(raw_events' = raw_events + 1 /\ msg'.type \notin RecognizedTypes) =>
            /\ seq' = seq + 1
            /\ out_queue' = out_queue
            /\ published' = published
            /\ telemetry' = telemetry
            /\ p_item' = p_item
            /\ rpc' \notin EnqueuePcs]_vars
    /\ []((msg # NoMsg /\ msg.type \notin RecognizedTypes) =>
            /\ rpc \notin EnqueuePcs
            /\ seq \notin SeqsInPipeline)

\* C12 witness: a HEARTBEAT arrived while record 1 was queued; seq is 2 and
\* the queue still holds record 1 alone.
HeartbeatAfterRecord ==
    /\ msg = Heartbeat
    /\ seq = 2
    /\ Len(out_queue) = 1
    /\ out_queue[1].seq.n = 1
    /\ published = <<>>

\* C13 as the scenario states it, for M = seq events fed into capacity
\* N = queue_size with nothing draining and M > N: the queue holds N records,
\* the first numbered M - N + 1 and the last numbered M + (M - N) (250 events
\* into capacity 200: events 51 to 300).
BufferHoldsScenarioEvents ==
    (rpc = "r_recv" /\ seq > queue_size) =>
        /\ Len(out_queue) = queue_size
        /\ out_queue[1].seq.n = seq - queue_size + 1
        /\ out_queue[Len(out_queue)].seq.n = seq + (seq - queue_size)

\* C13: with nothing draining, after M = seq record-producing events fed
\* into capacity N = queue_size the queue holds Min(M, N) records, the most
\* recently fed ones in feed order: for M > N exactly N records, numbered
\* M - N + 1 to M.
BufferHoldsNewestFed ==
    rpc = "r_recv" =>
        /\ Len(out_queue) = Min(queue_size, seq)
        /\ \A i \in 1..Len(out_queue) :
              out_queue[i].seq.n = seq - Len(out_queue) + i

\* C13 witness: more events than the largest capacity have been fed and the
\* last enqueue has finished.
FedMoreThanCapacity ==
    /\ queue_size = MaxCap
    /\ seq > queue_size
    /\ rpc = "r_recv"
    /\ Len(out_queue) = queue_size
    /\ published = <<>>

\* The event supplies a value for f, one of the fields extracted for its type
Supplies(m, f) == f \in Extracted(m.type) /\ m[f].k \notin {"absent", "none"}

\* C14: for every record the reader is enqueuing: if its event supplied
\* neither vx nor vy, the record has a velocity only if the event supplied
\* one; if the event supplied vx or vy and no velocity, the record has a
\* velocity and neither a vx nor a vy key.
VelocitySynthesizedFromComponents ==
    rpc \in EnqueuePcs =>
        LET components == Supplies(msg, "vx") \/ Supplies(msg, "vy")
        IN  /\ (~components /\ ~Supplies(msg, "vel")) =>
                   "velocity" \notin DOMAIN telemetry
            /\ (components /\ ~Supplies(msg, "vel")) =>
                   /\ "velocity" \in DOMAIN telemetry
                   /\ "vx" \notin DOMAIN telemetry
                   /\ "vy" \notin DOMAIN telemetry

\* The seq values of the records in out_queue, oldest first
QueueSeqs == [i \in 1..Len(out_queue) |-> out_queue[i].seq.n]

\* C15: delivery is at most once.  No seq occurs twice among the published
\* records, a published record is no longer in out_queue nor in the
\* publisher's hands, and no record is in out_queue twice.  A record is
\* published only as the record the publisher holds, which it then holds no
\* more, the publisher holds no record but one it took from the head of
\* out_queue, and a record enters out_queue only as the record the reader is
\* enqueuing.
DeliveredAtMostOnce ==
    /\ [](/\ \A i, j \in 1..Len(published) : i # j => published[i] # published[j]
          /\ \A i, j \in 1..Len(out_queue) : i # j => QueueSeqs[i] # QueueSeqs[j]
          /\ \A i \in 1..Len(published) :
                /\ \A j \in 1..Len(out_queue) : published[i] # QueueSeqs[j]
                /\ IsRecord(p_item) => published[i] # p_item.seq.n
          /\ IsRecord(p_item) =>
                \A j \in 1..Len(out_queue) : p_item.seq.n # QueueSeqs[j])
    /\ [][published' # published =>
            /\ IsRecord(p_item)
            /\ published' = Append(published, p_item.seq.n)
            /\ p_item' = NoRecord]_vars
    /\ [][(p_item' # p_item /\ IsRecord(p_item')) =>
            /\ out_queue # <<>>
            /\ p_item' = QueueItem(out_queue)
            /\ out_queue' = QueueRest(out_queue)]_vars
    /\ [][\A i \in 1..Len(out_queue') :
            \/ InQueue(out_queue'[i], out_queue)
            \/ rpc \in EnqueuePcs /\ out_queue'[i] = telemetry]_vars

\* C15 witness: two records have been published and a third is queued.
TwoPublishedOneQueued ==
    /\ Len(published) = 2
    /\ out_queue # <<>>
    /\ mpc = "p_get"

\* The publish loop's out_queue.get returns a record in this step
PublisherDequeues ==
    /\ mpc = "p_get"
    /\ out_queue # <<>>
    /\ out_queue' = QueueRest(out_queue)
    /\ rpc' = rpc
    /\ signal' = signal

\* C16: a record the publisher dequeues less than publish_interval after
\* last_pub is dropped: the step removes it from out_queue and changes
\* nothing else (nothing is published, the publisher holds no record, it
\* does not enter the connection wait, last_pub is the same instant).  The
\* instant last_pub moves only in the step after client.publish returned
\* (line 237), which a dropped record never reaches.
RateDropDiscardsRecord ==
    /\ [][(PublisherDequeues /\ last_pub_age < publish_interval(rate_hz)) =>
            /\ published' = published
            /\ last_pub_age' = last_pub_age
            /\ handoff_age' = handoff_age
            /\ p_item' = p_item
            /\ ~IsRecord(p_item')
            /\ mpc' = "p_get"
            /\ \A i \in 1..Len(out_queue') :
                  out_queue'[i] # QueueItem(out_queue)]_vars
    /\ [][last_pub_age' < last_pub_age =>
            (mpc = "p_handed" /\ mpc' = "p_get")]_vars
    /\ [][(mpc' = "p_handed" /\ mpc # "p_handed") =>
            (mpc \in HandoffPcs /\ IsRecord(p_item))]_vars

\* C16 witness: record 1 was published less than publish_interval ago, the
\* sink is connected and the publisher is about to dequeue the next record.
DequeueTooSoonAfterPublish ==
    /\ mpc = "p_get"
    /\ published = <<1>>
    /\ out_queue # <<>>
    /\ connected
    /\ handoff_age = last_pub_age
    /\ last_pub_age < publish_interval(rate_hz)

\* C17: once the MAVLink connection object exists, startup goes on to the
\* running pipeline whatever wait_heartbeat does (a heartbeat, none within
\* the timeout, an exception) and whether or not the sink's initial connect
\* succeeds: each outcome is possible and leads to the next startup step,
\* the last two steps start the reader and enter the publish loop, and
\* nothing but a signal ends the process in between.
StartupOutcomesNotFatal ==
    /\ [](mpc = "m_heartbeat" => \A o \in HeartbeatOutcomes : ENABLED MainWaitHeartbeat(o))
    /\ [](mpc = "m_sink" => \A ok \in BOOLEAN : ENABLED MainStartSink(ok))
    /\ [](mpc = "m_spawn" => sink_started /\ ENABLED MainStartReader)
    /\ [](mpc = "m_started" => rpc \in ReaderLive /\ ENABLED MainEnterLoop)
    /\ [][/\ \A o \in HeartbeatOutcomes : MainWaitHeartbeat(o) => mpc' = "m_sink"
          /\ \A ok \in BOOLEAN : MainStartSink(ok) => mpc' = "m_spawn"
          /\ MainStartReader => (rpc' = "r_recv" /\ mpc' = "m_started")
          /\ MainEnterLoop => (rpc' \in ReaderLive /\ mpc' = "p_get")
          /\ (mpc \in {"m_heartbeat", "m_sink", "m_spawn", "m_started"}
                /\ mpc' # mpc) =>
                \/ signal = "none" /\ signal' # "none" /\ mpc' = "exited"
                \/ /\ signal' = signal
                   /\ mpc' = (IF mpc = "m_heartbeat" THEN "m_sink"
                              ELSE IF mpc = "m_sink" THEN "m_spawn"
                              ELSE IF mpc = "m_spawn" THEN "m_started"
                              ELSE "p_get")]_vars

\* C17 witness: the pipeline runs (reader started and waiting for its first
\* event, publish loop entered) and the sink has not connected.
PipelineRunningUnconnected ==
    /\ mpc = "p_get"
    /\ rpc = "r_recv"
    /\ sink_started
    /\ ~connected
    /\ seq = 0
    /\ signal = "none"

\* The record key build_telemetry_from_msg stores an event's field under
RecordKey(type, f) == IF type = "VFR_HUD" /\ f = "vel" THEN "velocity" ELSE f

\* The record has a seq and a timestamp and none of its values is None
WellFormedRecord(t) ==
    /\ "seq" \in DOMAIN t
    /\ "timestamp" \in DOMAIN t
    /\ t.seq.k = "int"
    /\ t.timestamp.k = "time"
    /\ \A k \in DOMAIN t : t[k].k # "none"

\* C18: every record being enqueued, queued or in the publisher's hands
\* (the records that get published) has a seq and a timestamp and no None
\* value, and the record being enqueued has no key for a field its event did
\* not supply.
RecordsCarrySeqAndTimestamp ==
    /\ \A i \in 1..Len(out_queue) : WellFormedRecord(out_queue[i])
    /\ IsRecord(p_item) => WellFormedRecord(p_item)
    /\ rpc \in EnqueuePcs =>
          /\ WellFormedRecord(telemetry)
          /\ \A f \in Extracted(msg.type) :
                ~Supplies(msg, f) => RecordKey(msg.type, f) \notin DOMAIN telemetry

\* C18 witness: the publisher waits for the connection with a record of a
\* position event that supplied neither vz nor hdg, and another record is
\* queued behind it.
SparseRecordInHand ==
    /\ mpc = "p_wait"
    /\ IsRecord(p_item)
    /\ "lat" \in DOMAIN p_item
    /\ "vz" \notin DOMAIN p_item
    /\ "hdg" \notin DOMAIN p_item
    /\ out_queue # <<>>

\* C19: a hand-off the publisher started while the sink was not connected
\* is preceded by the warning, whether the connection wait ended because the
\* connection was signalled or because it timed out: the wait ends (other
\* than by the process ending) only in the state where the warning has been
\* printed, and from there the hand-off follows.
WarningBeforeEveryWaitedHandoff ==
    /\ [][(mpc \in {"p_checked", "p_wait", "p_notified"}
              /\ mpc' \notin {"p_checked", "p_wait", "p_notified", "exited"}
                              \cup ShutdownPcs) =>
            mpc' = "p_warned"]_vars
    /\ [][(mpc = "p_warned" /\ mpc' \notin {"p_warned", "exited"} \cup ShutdownPcs) =>
            (mpc' = "p_handed" /\ last_pub_age' = last_pub_age)]_vars
====
